---------------------------- MODULE Spec2Model ----------------------------
(***************************************************************************)
(* A model of the sensitive-word service: AcMachine (src/src/ac.rs), the   *)
(* word list with its derived Aho-Corasick matcher, and SensitiveFilter    *)
(* (src/src/filter.rs), the RwLock-guarded live AcMachine with init,       *)
(* rebuild_index, filter and find_sensitive_words.                         *)
(*                                                                         *)
(* Strings are sequences of bytes (naturals 0..255), offsets are 0-based   *)
(* byte offsets as in Rust, spans are half-open [start, end).              *)
(* An Option<T> is a sequence of length 0 (None) or 1 (Some).              *)
(***************************************************************************)
EXTENDS Integers, Sequences, FiniteSets, TLC

(***************************************************************************)
(* Bytes and strings                                                       *)
(***************************************************************************)
\* the mask character '*' of filter_text
Star == 42
\* '\n', the separator of str::lines
LF == 10

\* '\r', which str::lines drops before '\n'
CR == 13
\* ' ', one of the white-space bytes removed by str::trim
SP == 32

\* "a", "b", "c", "x" and the two-byte character U+00E9
ch_a == <<97>>
ch_b == <<98>>
ch_c == <<99>>
ch_x == <<120>>
ch_e == <<195, 169>>

\* the bytes str::trim removes (the ASCII members of White_Space)
WhiteSpace == {9, 10, 11, 12, 13, 32}

RECURSIVE concat(_)
\* the concatenation of a sequence of strings
concat(ss) == IF ss = <<>> THEN <<>> ELSE Head(ss) \o concat(Tail(ss))

\* "*".repeat(n)
repeat(b, n) == [i \in 1..n |-> b]

\* a continuation byte of UTF-8 (0b10xxxxxx)
is_continuation(b) == b >= 128 /\ b <= 191

\* str::is_char_boundary: index 0, the length, or a byte that starts a character
is_char_boundary(s, i) ==
    \/ i = 0
    \/ i = Len(s)
    \/ i > 0 /\ i < Len(s) /\ ~is_continuation(s[i + 1])

\* the byte length of the UTF-8 sequence that lead byte b starts, 0 if b starts none
utf8_width(b) ==
    IF b < 128 THEN 1
    ELSE IF b >= 194 /\ b <= 223 THEN 2
    ELSE IF b >= 224 /\ b <= 239 THEN 3
    ELSE IF b >= 240 /\ b <= 244 THEN 4
    ELSE 0

RECURSIVE is_utf8(_)
\* String::from_utf8's validity check (lead byte followed by its continuation bytes)
is_utf8(s) ==
    IF s = <<>> THEN TRUE
    ELSE LET w == utf8_width(s[1]) IN
         /\ w > 0
         /\ w <= Len(s)
         /\ \A i \in 2..w : is_continuation(s[i])
         /\ is_utf8(SubSeq(s, w + 1, Len(s)))

(***************************************************************************)
(* The aho_corasick matcher as AcMachine uses it: AhoCorasick::new builds  *)
(* with the default MatchKind::Standard, and find_iter yields the          *)
(* non-overlapping matches in the order the automaton detects them.        *)
(***************************************************************************)
\* pattern p occurs in hay at byte offset s
Occurs(p, hay, s) ==
    /\ s + Len(p) <= Len(hay)
    /\ SubSeq(hay, s + 1, s + Len(p)) = p

\* AhoCorasick::new(patterns): the automaton, identified by its patterns and match kind
AhoCorasick_new(patterns) == [patterns |-> patterns, kind |-> "Standard"]

\* every occurrence of a pattern of ac in hay that starts at or after from
Occurrences(ac, hay, from) ==
    { m \in [start : from..Len(hay), end : from..Len(hay), pattern : 0..(Len(ac.patterns) - 1)] :
        /\ m.end = m.start + Len(ac.patterns[m.pattern + 1])
        /\ Occurs(ac.patterns[m.pattern + 1], hay, m.start) }

\* m is reported before n by an automaton started at the search start: the match
\* state entered first (smallest end), in it the pattern of the state itself before
\* those of its suffixes (longest first), duplicates in insertion order
StandardBefore(m, n) ==
    \/ m.end < n.end
    \/ m.end = n.end /\ m.start < n.start
    \/ m.end = n.end /\ m.start = n.start /\ m.pattern <= n.pattern

\* Automaton::try_find from offset from: None, or Some(match)
try_find(ac, hay, from) ==
    LET occ == Occurrences(ac, hay, from) IN
    IF occ = {} THEN <<>>
    ELSE <<CHOOSE m \in occ : \A n \in occ : StandardBefore(m, n)>>

RECURSIVE find_iter_from_overlapping(_, _, _)
\* find_iter_from restarting one byte after the start of the match found
find_iter_from_overlapping(ac, hay, from) ==
    LET r == try_find(ac, hay, from) IN
    IF r = <<>> THEN <<>>
    ELSE <<r[1]>> \o find_iter_from_overlapping(ac, hay, r[1].start + 1)

RECURSIVE find_iter_from(_, _, _)
\* FindIter::next repeated: search, then restart at the end of the match found
find_iter_from(ac, hay, from) ==
    LET r == try_find(ac, hay, from) IN
    IF r = <<>> THEN <<>>
    ELSE <<r[1]>> \o find_iter_from(ac, hay, r[1].end)

\* ac.find_iter(text).collect()
find_iter(ac, hay) == find_iter_from(ac, hay, 0)

(***************************************************************************)
(* AcMachine                                                               *)
(***************************************************************************)
\* what a panicking call leaves instead of a string, of matches, of words: values
\* no call returns (-1 is no byte and no offset)
Panic == <<-1>>
PanicMatches == <<[start |-> -1, end |-> -1, word |-> Panic]>>
PanicWords == <<Panic>>

\* AcMachine::new
new == [words |-> <<>>, ac |-> <<>>]

\* AcMachine::build
build(machine) ==
    IF machine.words = <<>> THEN machine
    ELSE [machine EXCEPT !.ac = <<AhoCorasick_new(machine.words)>>]

\* AcMachine::from_words
from_words(words) == build([words |-> words, ac |-> <<>>])

\* find_matches, first half: ac.find_iter(text) when the matcher is present
scan_matches(machine, text) ==
    IF machine.ac # <<>> THEN find_iter(machine.ac[1], text) ELSE <<>>

\* map_matches naming the word after the matched one (a pattern id taken as 1-based)
map_matches_next_word(machine, ms) ==
    IF \E i \in 1..Len(ms) : ms[i].pattern + 1 > Len(machine.words) THEN PanicMatches
    ELSE [i \in 1..Len(ms) |->
             [start |-> ms[i].start, end |-> ms[i].end,
              word |-> machine.words[((ms[i].pattern + 1) % Len(machine.words)) + 1]]]

\* find_matches, second half: each match as (start, end, self.words[mat.pattern()]);
\* indexing words panics when the pattern id is out of range
map_matches(machine, ms) ==
    IF \E i \in 1..Len(ms) : ms[i].pattern + 1 > Len(machine.words) THEN PanicMatches
    ELSE [i \in 1..Len(ms) |->
             [start |-> ms[i].start, end |-> ms[i].end,
              word |-> machine.words[ms[i].pattern + 1]]]

\* AcMachine::find_matches
find_matches(machine, text) == map_matches(machine, scan_matches(machine, text))

\* String::replace_range(a..b, r): panics unless a and b are character boundaries
replace_range(s, a, b, r) ==
    IF s = Panic \/ ~is_char_boundary(s, a) \/ ~is_char_boundary(s, b) THEN Panic
    ELSE SubSeq(s, 1, a) \o r \o SubSeq(s, b + 1, Len(s))

\* the number of characters of a string
char_count(s) == Cardinality({i \in 1..Len(s) : ~is_continuation(s[i])})

RECURSIVE replace_rev_per_char(_, _)
\* replace_rev writing one mask character per character of the span
replace_rev_per_char(filtered, matches) ==
    IF matches = <<>> THEN filtered
    ELSE LET mat == matches[Len(matches)] IN
         replace_rev_per_char(
             replace_range(filtered, mat.start, mat.end,
                           repeat(Star, char_count(SubSeq(filtered, mat.start + 1, mat.end)))),
             SubSeq(matches, 1, Len(matches) - 1))

RECURSIVE replace_rev(_, _)
\* the loop of filter_text: the matches taken from the last to the first
replace_rev(filtered, matches) ==
    IF matches = <<>> THEN filtered
    ELSE LET mat == matches[Len(matches)] IN
         replace_rev(replace_range(filtered, mat.start, mat.end,
                                   repeat(Star, mat.end - mat.start)),
                     SubSeq(matches, 1, Len(matches) - 1))

\* filter_text masking the first match only (find in place of find_iter)
filter_text_first_only(machine, text) ==
    IF machine.ac # <<>>
    THEN replace_rev(text, try_find(machine.ac[1], text, 0))
    ELSE text

\* filter_text taking the matcher for granted (unwrap in place of if let)
filter_text_unwrapping(machine, text) ==
    IF machine.ac # <<>> THEN replace_rev(text, find_iter(machine.ac[1], text))
    ELSE Panic

\* AcMachine::filter_text
filter_text(machine, text) ==
    IF machine.ac # <<>> THEN replace_rev(text, find_iter(machine.ac[1], text))
    ELSE text

(***************************************************************************)
(* The persisted record: bincode's standard configuration over the serde   *)
(* form of AcMachine, whose ac field is skipped: the number of words, then *)
(* each word as its byte length and its bytes, every integer a varint.     *)
(***************************************************************************)
\* the largest integer a varint holds in one byte
VarintSingleMax == 250

RECURSIVE le_bytes(_, _)
\* the w little-endian bytes of n
le_bytes(n, w) == IF w = 0 THEN <<>> ELSE <<n % 256>> \o le_bytes(n \div 256, w - 1)

\* bincode varint encoding of an unsigned integer (up to u32 here)
varint_encode(n) ==
    IF n <= VarintSingleMax THEN <<n>>
    ELSE IF n < 65536 THEN <<251>> \o le_bytes(n, 2)
    ELSE <<252>> \o le_bytes(n, 4)

RECURSIVE le_value(_, _, _)
\* the integer held by the w little-endian bytes of data after offset pos
le_value(data, pos, w) ==
    IF w = 0 THEN 0 ELSE data[pos + 1] + 256 * le_value(data, pos + 1, w - 1)

\* the number of bytes that follow the marker byte b of a varint, -1 if b is reserved
varint_extra(b) ==
    IF b <= VarintSingleMax THEN 0
    ELSE IF b = 251 THEN 2
    ELSE IF b = 252 THEN 4
    ELSE IF b = 253 THEN 8
    ELSE IF b = 254 THEN 16
    ELSE -1

\* bincode varint decoding at offset pos: the value and the offset after it
varint_decode(data, pos) ==
    IF pos >= Len(data) THEN [ok |-> FALSE]
    ELSE LET b == data[pos + 1]
             w == varint_extra(b) IN
         IF w = 0 THEN [ok |-> TRUE, value |-> b, next |-> pos + 1]
         ELSE IF w < 0 \/ pos + 1 + w > Len(data) THEN [ok |-> FALSE]
         ELSE [ok |-> TRUE, value |-> le_value(data, pos + 1, w), next |-> pos + 1 + w]

\* the encoding of one String
encode_string(w) == varint_encode(Len(w)) \o w

\* bincode::serde::encode_to_vec(&self, config::standard()): words only
encode_to_vec(machine) ==
    varint_encode(Len(machine.words))
        \o concat([i \in 1..Len(machine.words) |-> encode_string(machine.words[i])])

\* the decoding of one String at offset pos: length, bytes, UTF-8 check
decode_string(data, pos) ==
    LET n == varint_decode(data, pos) IN
    IF ~n.ok THEN [ok |-> FALSE]
    ELSE IF n.next + n.value > Len(data) THEN [ok |-> FALSE]
    ELSE LET w == SubSeq(data, n.next + 1, n.next + n.value) IN
         IF is_utf8(w) THEN [ok |-> TRUE, value |-> w, next |-> n.next + n.value]
         ELSE [ok |-> FALSE]

RECURSIVE decode_strings(_, _, _)
\* the decoding of n Strings from offset pos
decode_strings(data, pos, n) ==
    IF n = 0 THEN [ok |-> TRUE, value |-> <<>>, next |-> pos]
    ELSE LET w == decode_string(data, pos) IN
         IF ~w.ok THEN [ok |-> FALSE]
         ELSE LET rest == decode_strings(data, w.next, n - 1) IN
              IF ~rest.ok THEN [ok |-> FALSE]
              ELSE [ok |-> TRUE, value |-> <<w.value>> \o rest.value, next |-> rest.next]

\* bincode::serde::decode_from_slice(&data, config::standard()): the machine with
\* the decoded words and the skipped field at its default (None); bytes after the
\* record are not read
decode_from_slice(data) ==
    LET n == varint_decode(data, 0) IN
    IF ~n.ok THEN [ok |-> FALSE]
    ELSE LET ws == decode_strings(data, n.next, n.value) IN
         IF ~ws.ok THEN [ok |-> FALSE]
         ELSE [ok |-> TRUE, machine |-> [words |-> ws.value, ac |-> <<>>]]

\* load_from_file without the build that follows the decoding
load_from_file_unbuilt(data) ==
    LET d == decode_from_slice(data) IN
    IF ~d.ok THEN [ok |-> FALSE]
    ELSE [ok |-> TRUE, machine |-> d.machine]

\* AcMachine::load_from_file on the bytes read: decode, then build
load_from_file(data) ==
    LET d == decode_from_slice(data) IN
    IF ~d.ok THEN [ok |-> FALSE]
    ELSE [ok |-> TRUE, machine |-> build(d.machine)]

(***************************************************************************)
(* The dictionary parse of rebuild_index                                   *)
(***************************************************************************)
RECURSIVE split_lf(_, _)
\* content split at every '\n'; cur is the line being read
split_lf(content, cur) ==
    IF content = <<>> THEN <<cur>>
    ELSE IF Head(content) = LF THEN <<cur>> \o split_lf(Tail(content), <<>>)
    ELSE split_lf(Tail(content), Append(cur, Head(content)))

\* a line without the '\r' that ended it
strip_cr(line) ==
    IF line # <<>> /\ line[Len(line)] = CR THEN SubSeq(line, 1, Len(line) - 1) ELSE line

\* str::lines: the lines ended by "\n" or "\r\n"; a final line that is empty is no line
lines(content) ==
    LET parts == split_lf(content, <<>>)
        kept == IF parts[Len(parts)] = <<>> THEN SubSeq(parts, 1, Len(parts) - 1) ELSE parts
    IN [i \in 1..Len(kept) |-> IF i < Len(parts) THEN strip_cr(kept[i]) ELSE kept[i]]

RECURSIVE trim_start(_)
trim_start(s) == IF s # <<>> /\ Head(s) \in WhiteSpace THEN trim_start(Tail(s)) ELSE s

RECURSIVE trim_end(_)
trim_end(s) ==
    IF s # <<>> /\ s[Len(s)] \in WhiteSpace THEN trim_end(SubSeq(s, 1, Len(s) - 1)) ELSE s

\* str::trim
trim(s) == trim_end(trim_start(s))

\* parse_words keeping the lines as they are (the map of trim left out)
parse_words_untrimmed(content) ==
    LET ls == lines(content)
        keep == SelectSeq(ls, LAMBDA l : trim(l) # <<>>)
    IN [i \in 1..Len(keep) |-> keep[i]]

\* content.lines().filter(|l| !l.trim().is_empty()).map(|l| l.trim().to_string())
parse_words(content) ==
    LET ls == lines(content)
        keep == SelectSeq(ls, LAMBDA l : trim(l) # <<>>)
    IN [i \in 1..Len(keep) |-> trim(keep[i])]

(***************************************************************************)
(* Bounds and input sets                                                   *)
(***************************************************************************)
\* the number of request-handler tasks that run beside main
NumTasks == 2
\* the longest word list given to AcMachine::from_words directly
MaxWords == 2
\* the longest text, in characters, given to find_matches and filter_text directly
MaxTextChars == 3

abc == ch_a \o ch_b \o ch_c
bc == ch_b \o ch_c

\* the terms word lists are made of
Vocabulary == {abc, bc, ch_b, ch_a \o ch_b, ch_e}
\* the characters texts are made of
Alphabet == {ch_a, ch_b, ch_c, ch_e}

WordLists == UNION {[1..n -> Vocabulary] : n \in 0..MaxWords}
Texts == {concat(cs) : cs \in UNION {[1..n -> Alphabet] : n \in 0..MaxTextChars}}

\* dictionary files: "b\nabc\nb\n" (a term twice), " bc \r\n\n<U+00E9>" (white space
\* around a term, "\r\n", a blank line, no final "\n") and the blank "\n \n"
DictContents ==
    { ch_b \o <<LF>> \o abc \o <<LF>> \o ch_b \o <<LF>>,
      <<SP>> \o bc \o <<SP, CR, LF, LF>> \o ch_e,
      <<LF, SP, LF>> }

\* index files found at start: none, a record written by an earlier run, the
\* record of an empty word list, and a record cut short
InitialIndexFiles ==
    { <<>>,
      <<encode_to_vec(from_words(<<bc>>))>>,
      <<encode_to_vec(new)>>,
      <<SubSeq(encode_to_vec(from_words(<<abc, ch_b>>)), 1, 4)>> }

\* the texts of the requests: "abcb<U+00E9>", in which every dictionary above
\* matches, the first one twice with the same term
RequestTexts == {abc \o ch_b \o ch_e}

Procs == 0..NumTasks
Handlers == 1..NumTasks
\* the task that runs main
Main == 0

(***************************************************************************)
(* State                                                                   *)
(***************************************************************************)
VARIABLES
    ac_machine,   \* the AcMachine inside SensitiveFilter.ac_machine
    lock,         \* the RwLock: readers, writer, and the FIFO queue of waiters
    dic,          \* models/source/dic.txt: None or Some(bytes)
    index,        \* models/ac_index.bin: None or Some(bytes)
    tasks,        \* per task: the call in progress, its position and locals
    out,          \* the call that returned in the last step, with its result
    pure          \* an AcMachine used directly, outside the service

vars == <<ac_machine, lock, dic, index, tasks, out, pure>>

\* a task with no call in progress
Idle ==
    [pc |-> "idle", op |-> "none", text |-> <<>>, machine |-> new, mats |-> <<>>,
     snap |-> <<>>]

\* no call returned in the last step
NoOut == [op |-> "none", status |-> "none"]

\* AcMachine state of the direct harness before anything is drawn
PureIdle ==
    [pc |-> "off", words |-> <<>>, text |-> <<>>, machine |-> new, file |-> <<>>,
     restored |-> [ok |-> FALSE], matches |-> <<>>, rmatches |-> <<>>,
     filtered |-> <<>>, rfiltered |-> <<>>]

\* RwLock::new
Unlocked == [readers |-> {}, writer |-> <<>>, waitq |-> <<>>]

Ok(v) == [status |-> "Ok", value |-> v]
Err(kind) == [status |-> "Err", value |-> kind]

(***************************************************************************)
(* tokio::sync::RwLock: a fair semaphore; a read takes one permit, a write *)
(* takes all of them, waiters are served in FIFO order.                    *)
(***************************************************************************)
\* can_read that does not wait for the write guard to be dropped
can_read_beside_writer(l) == TRUE

\* can_read of a lock with one permit (a Mutex in place of the RwLock)
can_read_exclusive(l) == l.writer = <<>> /\ l.readers = {}

\* a read guard can be handed out
can_read(l) == l.writer = <<>>

\* can_write that does not wait for the read guards to be dropped
can_write_beside_readers(l) == l.writer = <<>>

\* the write guard can be handed out
can_write(l) == l.writer = <<>> /\ l.readers = {}

\* p asks for a guard it gets at once when nobody waits and the permits are free
acquire_now(l, write) == l.waitq = <<>> /\ (IF write THEN can_write(l) ELSE can_read(l))

\* the lock after p got its guard
granted(l, p, write) ==
    IF write THEN [l EXCEPT !.writer = <<p>>] ELSE [l EXCEPT !.readers = @ \cup {p}]

\* released that gives back the read permits only (a write guard that is leaked)
released_readers_only(l, p) == [l EXCEPT !.readers = @ \ {p}]

\* the lock after p dropped its guard
released(l, p) ==
    [l EXCEPT !.readers = @ \ {p}, !.writer = IF @ = <<p>> THEN <<>> ELSE @]

\* a waiting task waits for the write guard
wants_write(t) == t.pc \in {"rb_wait", "in_wait"}

\* the position of a task once its guard is granted
after_grant(pc) ==
    CASE pc = "rb_wait" -> "rb_swap"
      [] pc = "in_wait" -> "in_swap"
      [] pc = "f_wait" -> "f_run"
      [] pc = "c_wait" -> "c_scan"
      [] OTHER -> pc

\* the head of the queue gets its guard once the permits it needs are free
lock_grant(p) ==
    /\ lock.waitq # <<>>
    /\ Head(lock.waitq) = p
    /\ IF wants_write(tasks[p]) THEN can_write(lock) ELSE can_read(lock)
    /\ lock' = granted([lock EXCEPT !.waitq = Tail(@)], p, wants_write(tasks[p]))
    /\ tasks' = [tasks EXCEPT ![p].pc = after_grant(@), ![p].snap = <<ac_machine>>]
    /\ out' = NoOut
    /\ UNCHANGED <<ac_machine, dic, index, pure>>

\* p asks for a guard: it has it at once, or it joins the queue
request(p, write, t, run, wait) ==
    IF acquire_now(lock, write)
    THEN /\ lock' = granted(lock, p, write)
         /\ tasks' = [tasks EXCEPT ![p] = [t EXCEPT !.pc = run, !.snap = <<ac_machine>>]]
         /\ out' = NoOut
    ELSE /\ lock' = [lock EXCEPT !.waitq = Append(@, p)]
         /\ tasks' = [tasks EXCEPT ![p] = [t EXCEPT !.pc = wait]]
         /\ out' = NoOut

(***************************************************************************)
(* SensitiveFilter                                                         *)
(***************************************************************************)
\* install assigning the word list alone, the matcher of the old index kept
install_words_only(old, machine) == [old EXCEPT !.words = machine.words]

\* `*ac = machine`: the guarded value is replaced as a whole
install(old, machine) == machine

\* main calls init or rebuild_index once, before it serves
at_boot(p) == p = Main /\ tasks[p].pc = "boot"

\* a handler runs only once main serves (axum::serve follows a successful start);
\* the tasks are interchangeable, a request is given to the first free one
can_handle(p) ==
    /\ p \in Handlers
    /\ tasks[p].pc = "idle"
    /\ tasks[Main].pc = "serve"
    /\ \A q \in Handlers : q < p => tasks[q].pc # "idle"

\* the call of task p returns r: a handler answers its request and is free again;
\* main serves after Ok and exits after Err (the `?` of main)
returns(p, t, r) ==
    /\ tasks' = [tasks EXCEPT ![p] =
                    IF p # Main THEN Idle
                    ELSE [Idle EXCEPT !.pc = IF r.status = "Ok" THEN "serve" ELSE "exit"]]
    /\ out' = [op |-> t.op, task |-> p, at |-> t.pc, text |-> t.text,
               machine |-> t.machine, snap |-> t.snap,
               status |-> r.status, value |-> r.value]

\* the call of task p goes on as t
continues(p, t) == tasks' = [tasks EXCEPT ![p] = t] /\ out' = NoOut

\* rebuild_begin without the check that the dictionary exists
rebuild_begin_unchecked(p, t) == continues(p, [t EXCEPT !.pc = "rb_read"])

\* the head of rebuild_index: dic_path.exists()
rebuild_begin(p, t) ==
    IF dic = <<>> THEN returns(p, t, Err("NotFound"))
    ELSE continues(p, [t EXCEPT !.pc = "rb_read"])

\* rebuild_index is called (by main with --rebuild, or by the /rebuild handler)
rebuild_index_start(p) ==
    /\ at_boot(p) \/ can_handle(p)
    /\ rebuild_begin(p, [tasks[p] EXCEPT !.op = "rebuild_index"])
    /\ UNCHANGED <<ac_machine, lock, dic, index, pure>>

\* rebuild_machine without the check that the word list is not empty
rebuild_machine_unchecked(content) == Ok(from_words(parse_words(content)))

\* rebuild_index, from the content read: the parse, the empty check, from_words
rebuild_machine(content) ==
    LET words == parse_words(content) IN
    IF words = <<>> THEN Err("EmptyDictionary") ELSE Ok(from_words(words))

\* what rebuild_index makes of each dictionary file it can read: read_to_string
\* fails on bytes that are not UTF-8, else the machine of the content. The results
\* are computed once for the dictionaries of the model.
dictionary_results ==
    {[content |-> c,
      result |-> IF is_utf8(c) THEN rebuild_machine(c) ELSE Err("IOError")]
     : c \in DictContents}

\* the indexes the service can hold: the new one, those built from a dictionary and
\* those restored from an index file present at the start
Machines ==
    {new}
    \cup {d.result.value : d \in {e \in dictionary_results : e.result.status = "Ok"}}
    \cup {load_from_file(f[1]).machine :
             f \in {g \in InitialIndexFiles : g # <<>> /\ load_from_file(g[1]).ok}}

\* what the reads compute on each index for each text: filter_text, and the scan of
\* find_matches. The results are computed once for the indexes and texts of the
\* model.
read_results ==
    {[machine |-> m, text |-> t,
      filtered |-> filter_text(m, t), scanned |-> scan_matches(m, t)]
     : m \in Machines, t \in RequestTexts}

\* rebuild_index: read_to_string(&dic_path).await?, then the machine of the content
rebuild_index_read(p) ==
    /\ tasks[p].pc = "rb_read"
    /\ IF dic = <<>> THEN returns(p, tasks[p], Err("IOError"))
       ELSE \E d \in dictionary_results :
              /\ d.content = dic[1]
              /\ IF d.result.status = "Err" THEN returns(p, tasks[p], d.result)
                 ELSE continues(p, [tasks[p] EXCEPT !.pc = "rb_save",
                                                    !.machine = d.result.value])
    /\ UNCHANGED <<ac_machine, lock, dic, index, pure>>

\* what a failed fs::write can leave: the file as it was, or created and cut short
write_leftovers(old, data) == {old, <<SubSeq(data, 1, Len(data) \div 2)>>}

\* rebuild_index_save going on to the swap when the write failed
rebuild_index_save_ignoring_error(p) ==
    /\ tasks[p].pc = "rb_save"
    /\ LET data == encode_to_vec(tasks[p].machine) IN
       \/ index' = <<data>>
       \/ index' \in write_leftovers(index, data)
    /\ continues(p, [tasks[p] EXCEPT !.pc = "rb_lock"])
    /\ UNCHANGED <<ac_machine, lock, dic, pure>>

\* rebuild_index: machine.save_to_file(&index_path).await?
rebuild_index_save(p) ==
    /\ tasks[p].pc = "rb_save"
    /\ LET data == encode_to_vec(tasks[p].machine) IN
       \/ /\ index' = <<data>>
          /\ continues(p, [tasks[p] EXCEPT !.pc = "rb_lock"])
       \/ /\ index' \in write_leftovers(index, data)
          /\ returns(p, tasks[p], Err("IOError"))
    /\ UNCHANGED <<ac_machine, lock, dic, pure>>

\* rebuild_index: self.ac_machine.write().await
rebuild_index_lock(p) ==
    /\ tasks[p].pc = "rb_lock"
    /\ request(p, TRUE, tasks[p], "rb_swap", "rb_wait")
    /\ UNCHANGED <<ac_machine, dic, index, pure>>

\* rebuild_index: *ac = machine; Ok(()) and the guard is dropped
rebuild_index_swap(p) ==
    /\ tasks[p].pc = "rb_swap"
    /\ ac_machine' = install(ac_machine, tasks[p].machine)
    /\ lock' = released(lock, p)
    /\ returns(p, tasks[p], Ok(<<>>))
    /\ UNCHANGED <<dic, index, pure>>

\* init is called by main: index_path.exists()
init_start(p) ==
    /\ at_boot(p)
    /\ IF index # <<>>
       THEN continues(p, [tasks[p] EXCEPT !.op = "init", !.pc = "in_load"])
       ELSE rebuild_begin(p, [tasks[p] EXCEPT !.op = "init"])
    /\ UNCHANGED <<ac_machine, lock, dic, index, pure>>

\* init_load returning the error of load_from_file (`?` in place of the match)
init_load_propagating(p) ==
    /\ tasks[p].pc = "in_load"
    /\ LET r == IF index = <<>> THEN [ok |-> FALSE] ELSE load_from_file(index[1]) IN
       IF r.ok
       THEN continues(p, [tasks[p] EXCEPT !.pc = "in_lock", !.machine = r.machine])
       ELSE returns(p, tasks[p], Err("IOError"))
    /\ UNCHANGED <<ac_machine, lock, dic, index, pure>>

\* init: AcMachine::load_from_file; any Err falls through to rebuild_index
init_load(p) ==
    /\ tasks[p].pc = "in_load"
    /\ LET r == IF index = <<>> THEN [ok |-> FALSE] ELSE load_from_file(index[1]) IN
       IF r.ok
       THEN continues(p, [tasks[p] EXCEPT !.pc = "in_lock", !.machine = r.machine])
       ELSE rebuild_begin(p, tasks[p])
    /\ UNCHANGED <<ac_machine, lock, dic, index, pure>>

\* init: self.ac_machine.write().await
init_lock(p) ==
    /\ tasks[p].pc = "in_lock"
    /\ request(p, TRUE, tasks[p], "in_swap", "in_wait")
    /\ UNCHANGED <<ac_machine, dic, index, pure>>

\* init: *ac = machine; return Ok(()) and the guard is dropped
init_swap(p) ==
    /\ tasks[p].pc = "in_swap"
    /\ ac_machine' = install(ac_machine, tasks[p].machine)
    /\ lock' = released(lock, p)
    /\ returns(p, tasks[p], Ok(<<>>))
    /\ UNCHANGED <<dic, index, pure>>

\* filter is called: self.ac_machine.read().await
filter_start(p, text) ==
    /\ can_handle(p)
    /\ request(p, FALSE, [tasks[p] EXCEPT !.op = "filter", !.text = text], "f_run", "f_wait")
    /\ UNCHANGED <<ac_machine, dic, index, pure>>

\* filter: ac.filter_text(text); the guard is dropped on return
filter_run(p) ==
    /\ tasks[p].pc = "f_run"
    /\ \E r \in read_results :
          /\ r.machine = ac_machine
          /\ r.text = tasks[p].text
          /\ returns(p, tasks[p], Ok(r.filtered))
    /\ lock' = released(lock, p)
    /\ UNCHANGED <<ac_machine, dic, index, pure>>

\* find_sensitive_words is called: self.ac_machine.read().await
find_sensitive_words_start(p, text) ==
    /\ can_handle(p)
    /\ request(p, FALSE, [tasks[p] EXCEPT !.op = "find_sensitive_words", !.text = text],
               "c_scan", "c_wait")
    /\ UNCHANGED <<ac_machine, dic, index, pure>>

\* find_sensitive_words: the scan of ac.find_matches(text), which reads ac
find_sensitive_words_scan(p) ==
    /\ tasks[p].pc = "c_scan"
    /\ \E r \in read_results :
          /\ r.machine = ac_machine
          /\ r.text = tasks[p].text
          /\ continues(p, [tasks[p] EXCEPT !.pc = "c_map", !.mats = r.scanned])
    /\ UNCHANGED <<ac_machine, lock, dic, index, pure>>

RECURSIVE words_of_dedup(_)
\* words_of naming a word once when it matches twice in a row (Vec::dedup)
words_of_dedup(matches) ==
    IF matches = PanicMatches THEN PanicWords
    ELSE IF matches = <<>> THEN <<>>
    ELSE LET rest == words_of_dedup(Tail(matches)) IN
         IF rest # <<>> /\ rest[1] = Head(matches).word THEN rest
         ELSE <<Head(matches).word>> \o rest

\* the matched words of a result of find_matches, offsets discarded
words_of(matches) ==
    IF matches = PanicMatches THEN PanicWords
    ELSE [i \in 1..Len(matches) |-> matches[i].word]

\* find_sensitive_words: the matches mapped to words, which reads words; the guard
\* is dropped on return
find_sensitive_words_map(p) ==
    /\ tasks[p].pc = "c_map"
    /\ returns(p, tasks[p], Ok(words_of(map_matches(ac_machine, tasks[p].mats))))
    /\ lock' = released(lock, p)
    /\ UNCHANGED <<ac_machine, dic, index, pure>>

\* the dictionary file is written from outside
dic_write(content) ==
    /\ dic # <<content>>
    /\ dic' = <<content>>
    /\ out' = NoOut
    /\ UNCHANGED <<ac_machine, lock, index, tasks, pure>>

\* the dictionary file is removed from outside
dic_remove ==
    /\ dic # <<>>
    /\ dic' = <<>>
    /\ out' = NoOut
    /\ UNCHANGED <<ac_machine, lock, index, tasks, pure>>

\* SensitiveFilter::new, with whatever files the directories hold
Init ==
    /\ ac_machine = new
    /\ lock = Unlocked
    /\ dic \in {<<>>} \cup {<<c>> : c \in DictContents}
    /\ index \in InitialIndexFiles
    /\ tasks = [p \in Procs |-> IF p = Main THEN [Idle EXCEPT !.pc = "boot"] ELSE Idle]
    /\ out = NoOut
    /\ pure = PureIdle

Next ==
    \/ \E p \in Procs : rebuild_index_start(p)
    \/ \E p \in Procs : rebuild_index_read(p)
    \/ \E p \in Procs : rebuild_index_save(p)
    \/ \E p \in Procs : rebuild_index_lock(p)
    \/ \E p \in Procs : rebuild_index_swap(p)
    \/ \E p \in Procs : init_start(p)
    \/ \E p \in Procs : init_load(p)
    \/ \E p \in Procs : init_lock(p)
    \/ \E p \in Procs : init_swap(p)
    \/ \E p \in Procs, text \in RequestTexts : filter_start(p, text)
    \/ \E p \in Procs : filter_run(p)
    \/ \E p \in Procs, text \in RequestTexts : find_sensitive_words_start(p, text)
    \/ \E p \in Procs : find_sensitive_words_scan(p)
    \/ \E p \in Procs : find_sensitive_words_map(p)
    \/ \E p \in Procs : lock_grant(p)
    \/ \E content \in DictContents : dic_write(content)
    \/ dic_remove

Spec == Init /\ [][Next]_vars

\* the steps of a call of task p that has started: the runtime polls a task that
\* can run, and the lock hands its permits to the head of its queue
step(p) ==
    \/ rebuild_index_read(p)
    \/ rebuild_index_save(p)
    \/ rebuild_index_lock(p)
    \/ rebuild_index_swap(p)
    \/ init_load(p)
    \/ init_lock(p)
    \/ init_swap(p)
    \/ filter_run(p)
    \/ find_sensitive_words_scan(p)
    \/ find_sensitive_words_map(p)
    \/ lock_grant(p)

\* a call of task p starts: main at its start, a handler on a request
start(p) ==
    \/ rebuild_index_start(p)
    \/ init_start(p)
    \/ \E text \in RequestTexts : filter_start(p, text)
    \/ \E text \in RequestTexts : find_sensitive_words_start(p, text)

\* the steps of the service, the files left to it
calls == \E p \in Procs : start(p) \/ step(p)

\* the service under a fair scheduler, on any dictionary and index file: a task
\* that can take a step takes one in the end; requests come or do not
FairSpec == Init /\ [][calls]_vars /\ \A p \in Procs : WF_vars(step(p))

(***************************************************************************)
(* AcMachine used directly: a word list and a text are drawn, then         *)
(* from_words, find_matches, filter_text, save_to_file, load_from_file and *)
(* the two reads on the restored machine are applied in turn.              *)
(***************************************************************************)
ac_from_words ==
    /\ pure.pc = "new"
    /\ pure' = [pure EXCEPT !.pc = "built", !.machine = from_words(pure.words)]
    /\ UNCHANGED <<ac_machine, lock, dic, index, tasks, out>>

ac_find_matches ==
    /\ pure.pc = "built"
    /\ pure' = [pure EXCEPT !.pc = "found",
                            !.matches = find_matches(pure.machine, pure.text)]
    /\ UNCHANGED <<ac_machine, lock, dic, index, tasks, out>>

ac_filter_text ==
    /\ pure.pc = "found"
    /\ pure' = [pure EXCEPT !.pc = "filtered",
                            !.filtered = filter_text(pure.machine, pure.text)]
    /\ UNCHANGED <<ac_machine, lock, dic, index, tasks, out>>

\* save_to_file whose fs::write succeeds: the file holds the encoding
ac_save_to_file ==
    /\ pure.pc = "filtered"
    /\ pure' = [pure EXCEPT !.pc = "saved", !.file = encode_to_vec(pure.machine)]
    /\ UNCHANGED <<ac_machine, lock, dic, index, tasks, out>>

ac_load_from_file ==
    /\ pure.pc = "saved"
    /\ pure' = [pure EXCEPT !.pc = "loaded", !.restored = load_from_file(pure.file)]
    /\ UNCHANGED <<ac_machine, lock, dic, index, tasks, out>>

\* find_matches and filter_text of the restored machine
ac_restored_reads ==
    /\ pure.pc = "loaded"
    /\ pure.restored.ok
    /\ pure' = [pure EXCEPT !.pc = "done",
                            !.rmatches = find_matches(pure.restored.machine, pure.text),
                            !.rfiltered = filter_text(pure.restored.machine, pure.text)]
    /\ UNCHANGED <<ac_machine, lock, dic, index, tasks, out>>

PureInit ==
    /\ ac_machine = new
    /\ lock = Unlocked
    /\ dic = <<>>
    /\ index = <<>>
    /\ tasks = [p \in Procs |-> IF p = Main THEN [Idle EXCEPT !.pc = "boot"] ELSE Idle]
    /\ out = NoOut
    /\ \E ws \in WordLists, text \in Texts :
           pure = [PureIdle EXCEPT !.pc = "new", !.words = ws, !.text = text]

PureNext ==
    \/ ac_from_words
    \/ ac_find_matches
    \/ ac_filter_text
    \/ ac_save_to_file
    \/ ac_load_from_file
    \/ ac_restored_reads

PureSpec == PureInit /\ [][PureNext]_vars

(***************************************************************************)
(* Properties of AcMachine, checked under PureSpec                         *)
(***************************************************************************)
\* find_matches has run on the drawn word list and text
Found == pure.pc \in {"found", "filtered", "saved", "loaded", "done"}
\* filter_text has run as well
Filtered == pure.pc \in {"filtered", "saved", "loaded", "done"}

\* some word of ws occurs in text at an offset in lo..hi
OccursWithin(ws, text, lo, hi) ==
    \E s \in lo..hi, i \in 1..Len(ws) : Occurs(ws[i], text, s)

\* C6: find_matches is a leftmost, non-overlapping scan: every reported match starts
\* at the earliest offset, at or after the end of the match before it (0 for the
\* first), at which any configured term occurs; and ["abc", "bc"] on "xabcx" gives
\* exactly one match.
C6_LeftmostScan ==
    /\ Found =>
         \A i \in 1..Len(pure.matches) :
            LET prev == IF i = 1 THEN 0 ELSE pure.matches[i - 1].end IN
            /\ pure.matches[i].start >= prev
            /\ ~OccursWithin(pure.words, pure.text, prev, pure.matches[i].start - 1)
    /\ Len(find_matches(from_words(<<abc, bc>>), ch_x \o abc \o ch_x)) = 1

\* C7: the matches of a built index are in ascending order of start, do not overlap
\* (match[i].end <= match[i+1].start) and lie within the text.
C7_OrderedNonOverlapping ==
    (Found /\ pure.machine.ac # <<>>) =>
        /\ pure.matches # PanicMatches
        /\ \A i \in 1..Len(pure.matches) :
              /\ 0 <= pure.matches[i].start
              /\ pure.matches[i].start <= pure.matches[i].end
              /\ pure.matches[i].end <= Len(pure.text)
        /\ \A i \in 1..(Len(pure.matches) - 1) :
              /\ pure.matches[i].end <= pure.matches[i + 1].start
              /\ pure.matches[i].start <= pure.matches[i + 1].start

\* a text in which a built index finds two matches at least
C7_Witness ==
    /\ Found
    /\ pure.machine.ac # <<>>
    /\ Len(pure.matches) >= 2

\* C8: filter_text keeps the byte length of the text, for a built index and for one
\* that is not, also when matched terms hold multi-byte characters.
C8_LengthPreserved ==
    Filtered => (pure.filtered # Panic /\ Len(pure.filtered) = Len(pure.text))

\* a matched term with a two-byte character was masked
C8_Witness ==
    /\ Filtered
    /\ \E i \in 1..Len(pure.matches) : pure.matches[i].word = ch_e
    /\ Len(pure.text) > 2

\* byte position p (counted from 1) lies in the span of some match
InSpan(matches, p) ==
    \E i \in 1..Len(matches) : matches[i].start < p /\ p <= matches[i].end

\* C9: filter_text masks exactly the spans of find_matches: the byte at a position
\* is '*' when the position lies in a span and the byte of the text otherwise; with
\* no match the text comes back unchanged.
C9_MasksExactlyMatches ==
    Filtered =>
        /\ Len(pure.filtered) = Len(pure.text)
        /\ \A p \in 1..Len(pure.text) :
              pure.filtered[p] = IF InSpan(pure.matches, p) THEN Star ELSE pure.text[p]
        /\ (pure.matches = <<>> => pure.filtered = pure.text)

\* a text with two spans masked and a byte between or around them kept
C9_Witness ==
    /\ Filtered
    /\ Len(pure.matches) >= 2
    /\ \E p \in 1..Len(pure.text) : ~InSpan(pure.matches, p)

\* C10: the index restored from the persisted record of from_words(W) has the word
\* list W in order and a matcher built anew from it, and its find_matches and
\* filter_text agree with those of from_words(W); the record holds the words only.
C10_RoundTrip ==
    /\ pure.pc \in {"loaded", "done"} =>
          /\ pure.restored.ok
          /\ pure.restored.machine.words = pure.words
          /\ pure.restored.machine.ac = pure.machine.ac
          /\ (pure.words # <<>> => pure.restored.machine.ac # <<>>)
    /\ pure.pc = "done" =>
          /\ pure.rmatches = pure.matches
          /\ pure.rfiltered = pure.filtered
    /\ pure.pc \in {"saved", "loaded", "done"} =>
          decode_from_slice(pure.file) = [ok |-> TRUE, machine |-> [words |-> pure.words, ac |-> <<>>]]

\* a two-word list was persisted and restored, and the restored index matches
C10_Witness ==
    /\ pure.pc = "done"
    /\ Len(pure.words) = 2
    /\ pure.rmatches # <<>>

(***************************************************************************)
(* Properties of SensitiveFilter, checked under Spec                       *)
(***************************************************************************)
\* the index m is whole: no words and no matcher, or the matcher of its words
Whole(m) == m.ac = IF m.words = <<>> THEN <<>> ELSE <<AhoCorasick_new(m.words)>>

\* the call that returned in the step to o is one of task p
ReturnedBy(o, p) == o.op # "none" /\ o.task = p

\* o is the return of Err(kind)
IsErr(o, kind) == o.status = "Err" /\ o.value = kind

\* C1: whatever rebuilds run beside it, the result of filter or find_sensitive_words
\* is the result computed against one whole index: the one that was live when the
\* read got its guard, which is still the live one when the read returns. No result
\* mixes the words and the matcher of two indexes.
C1_ReadsSeeOneIndex ==
    out.op \in {"filter", "find_sensitive_words"} =>
        /\ out.status = "Ok"
        /\ out.snap = <<ac_machine>>
        /\ Whole(out.snap[1])
        /\ out.value = IF out.op = "filter"
                       THEN filter_text(out.snap[1], out.text)
                       ELSE words_of(find_matches(out.snap[1], out.text))

\* a read found words in a built index and returned while a rebuild that has
\* persisted its new index waits for the write guard behind it
C1_Witness ==
    /\ out.op = "find_sensitive_words"
    /\ out.value # <<>>
    /\ \E q \in Handlers :
          /\ tasks[q].pc = "rb_wait"
          /\ tasks[q].machine # ac_machine

\* task p calls rebuild_index in this step: from main or a handler, or from init
\* when there is no index file or load_from_file failed
CallsRebuild(p) ==
    \/ /\ tasks[p].pc \in {"idle", "boot"}
       /\ \/ tasks'[p].op = "rebuild_index"
          \/ ReturnedBy(out', p) /\ out'.op = "rebuild_index"
    \/ /\ tasks[p].pc = "boot"
       /\ index = <<>>
       /\ tasks'[p].op = "init" \/ (ReturnedBy(out', p) /\ out'.op = "init")
    \/ /\ tasks[p].pc = "in_load"
       /\ tasks'[p].pc \notin {"in_load", "in_lock"}

\* C2: rebuild_index called while the dictionary file does not exist returns the
\* NotFound error; the live index is what it was and the index file is not written.
C2_DictionaryNotFound ==
    [][\A p \in Procs :
          (CallsRebuild(p) /\ dic = <<>>) =>
              /\ ReturnedBy(out', p)
              /\ IsErr(out', "NotFound")
              /\ ac_machine' = ac_machine
              /\ index' = index
              /\ lock' = lock]_vars

\* a /rebuild found no dictionary while a built index was live
C2_Witness ==
    /\ out.op = "rebuild_index"
    /\ IsErr(out, "NotFound")
    /\ out.task \in Handlers
    /\ ac_machine.ac # <<>>

\* every line of the content is empty or white space
AllBlank(content) == \A i \in 1..Len(content) : content[i] \in WhiteSpace

\* C3: when the dictionary file holds blank lines only, rebuild_index returns the
\* EmptyDictionary error, with no persist and no swap: the live index is unchanged.
C3_EmptyDictionary ==
    [][\A p \in Procs :
          (/\ tasks[p].pc = "rb_read"
           /\ tasks'[p].pc # "rb_read"
           /\ dic # <<>>
           /\ AllBlank(dic[1])) =>
              /\ ReturnedBy(out', p)
              /\ IsErr(out', "EmptyDictionary")
              /\ ac_machine' = ac_machine
              /\ index' = index
              /\ lock' = lock]_vars

\* a /rebuild read a blank dictionary while a built index was live
C3_Witness ==
    /\ out.op = "rebuild_index"
    /\ IsErr(out, "EmptyDictionary")
    /\ out.task \in Handlers
    /\ dic # <<>>
    /\ AllBlank(dic[1])
    /\ ac_machine.ac # <<>>

\* C4: rebuild_index swaps only after the new index is persisted: a task reaches the
\* request for the write guard only by a write that left the encoding of its machine
\* in the index file, it waits for or holds the guard only after that request, the
\* live index changes only in the swap of a task that holds the guard, and a
\* rebuild_index that returns an error (a failed persist among them) never asked for
\* the guard and leaves the live index as it was, built or not.
C4_SwapAfterPersist ==
    [][/\ \A p \in Procs :
            /\ (tasks'[p].pc = "rb_lock" /\ tasks[p].pc # "rb_lock") =>
                  /\ tasks[p].pc = "rb_save"
                  /\ index' = <<encode_to_vec(tasks'[p].machine)>>
            /\ (tasks'[p].pc \in {"rb_wait", "rb_swap"}) =>
                  tasks[p].pc \in {"rb_lock", "rb_wait", "rb_swap"}
            /\ (tasks[p].pc = "rb_save" /\ ReturnedBy(out', p)) =>
                  /\ IsErr(out', "IOError")
                  /\ lock' = lock
                  /\ ac_machine' = ac_machine
       /\ (out'.op \in {"rebuild_index", "init"} /\ out'.status = "Err") =>
            /\ out'.at \in {"idle", "boot", "in_load", "rb_read", "rb_save"}
            /\ lock' = lock
            /\ ac_machine' = ac_machine
       /\ (ac_machine' # ac_machine) =>
            \E p \in Procs :
               /\ tasks[p].pc \in {"rb_swap", "in_swap"}
               /\ lock.writer = <<p>>
               /\ ac_machine' = tasks[p].machine
               /\ ReturnedBy(out', p)
               /\ out'.status = "Ok"]_vars

\* the persist of a /rebuild failed while a built index was live, which stays live
C4_Witness ==
    /\ out.op = "rebuild_index"
    /\ out.at = "rb_save"
    /\ IsErr(out, "IOError")
    /\ out.task \in Handlers
    /\ ac_machine.ac # <<>>
    /\ out.machine # ac_machine

\* the outcome of the head of rebuild_index for task p in this step
RebuildHead(p) ==
    IF dic = <<>> THEN ReturnedBy(out', p) /\ IsErr(out', "NotFound")
    ELSE tasks'[p].pc = "rb_read" /\ out' = NoOut

\* C5: init restores or rebuilds. With an index file that load_from_file restores,
\* the restored index becomes the live one and init returns Ok with no rebuild; with
\* no index file, or one that does not restore, init goes into rebuild_index and
\* returns its outcome: Ok with the index built from the dictionary live, or the
\* error of the rebuild, the only errors init returns.
C5_RestoreOrRebuild ==
    [][/\ (/\ tasks[Main].pc = "boot"
           /\ tasks'[Main].op = "init" \/ (ReturnedBy(out', Main) /\ out'.op = "init")) =>
            IF index # <<>>
            THEN tasks'[Main].pc = "in_load" /\ out' = NoOut
            ELSE RebuildHead(Main)
       /\ (tasks[Main].pc = "in_load" /\ tasks'[Main].pc # "in_load") =>
            IF index # <<>> /\ load_from_file(index[1]).ok
            THEN /\ tasks'[Main].pc = "in_lock"
                 /\ tasks'[Main].machine = load_from_file(index[1]).machine
                 /\ out' = NoOut
            ELSE RebuildHead(Main)
       /\ (tasks[Main].pc \in {"in_lock", "in_wait", "in_swap"}) =>
            /\ tasks'[Main].pc \in {"in_lock", "in_wait", "in_swap", "serve"}
            /\ index' = index
            /\ load_from_file(index[1]).machine = tasks[Main].machine
       /\ (out'.op = "init" /\ out'.status = "Ok") =>
            /\ tasks'[Main].pc = "serve"
            /\ ac_machine' = out'.machine
            /\ \/ out'.at = "in_swap"
               \/ /\ out'.at = "rb_swap"
                  /\ \E c \in DictContents : out'.machine = from_words(parse_words(c))
                  /\ out'.machine.ac # <<>>
       /\ (out'.op = "init" /\ out'.status = "Err") =>
            /\ tasks'[Main].pc = "exit"
            /\ \/ out'.at \in {"boot", "in_load"} /\ IsErr(out', "NotFound")
               \/ out'.at = "rb_read" /\ out'.value \in {"IOError", "EmptyDictionary"}
               \/ out'.at = "rb_save" /\ IsErr(out', "IOError")]_vars

\* init found an index file that does not restore and a dictionary with words, and
\* has built the index of the dictionary in its fallback rebuild
C5_Witness ==
    /\ tasks[Main].op = "init"
    /\ tasks[Main].pc = "rb_save"
    /\ index # <<>>
    /\ ~load_from_file(index[1]).ok
    /\ tasks[Main].machine.ac # <<>>

(***************************************************************************)
(* The reads of an index without a matcher                                 *)
(***************************************************************************)
\* an index without a compiled matcher
Degraded(m) == m.ac = <<>>

\* C11: filter and find_sensitive_words never return an error; a read whose guard
\* was granted on an index without a matcher returns the text as it is (filter) or
\* no word (find_sensitive_words), and so would a read of any text in any state
\* whose live index has no matcher, the index of an empty word list among them.
C11_ReadsDegradeSafely ==
    /\ out.op \in {"filter", "find_sensitive_words"} =>
          /\ out.status = "Ok"
          /\ out.value # IF out.op = "filter" THEN Panic ELSE PanicWords
          /\ Degraded(out.snap[1]) =>
                out.value = IF out.op = "filter" THEN out.text ELSE <<>>
    /\ Degraded(ac_machine) =>
          \A text \in Texts :
             /\ filter_text(ac_machine, text) = text
             /\ find_matches(ac_machine, text) = <<>>
    /\ Degraded(from_words(<<>>))

\* filter returned a text with a sensitive word in it as it was given, on a live
\* index without a matcher
C11_Witness ==
    /\ out.op = "filter"
    /\ Degraded(ac_machine)
    /\ out.snap = <<ac_machine>>
    /\ out.value = out.text
    /\ \E w \in Vocabulary : \E s \in 0..Len(out.text) : Occurs(w, out.text, s)

(***************************************************************************)
(* The order of reads and swaps                                            *)
(***************************************************************************)
\* task p holds a read guard
Reading(t) == t.pc \in {"f_run", "c_scan", "c_map"}

\* the result of the read t against the index m
ReadResult(t, m) ==
    IF t.op = "filter" THEN filter_text(m, t.text)
    ELSE words_of(find_matches(m, t.text))

\* C12: a read gets its guard only while no swap holds the write guard, on the
\* index the last completed swap installed; no swap completes while the read holds
\* its guard, and the read returns the result computed against that index. So a
\* read that acquired after a swap sees the index of that swap, and one that
\* acquired before a swap returns against the index it acquired.
C12_ReadsOrderedWithSwaps ==
    [][\A p \in Handlers :
          /\ Reading(tasks'[p]) /\ ~Reading(tasks[p]) =>
                /\ lock.writer = <<>>
                /\ \A q \in Procs : tasks[q].pc \notin {"rb_swap", "in_swap"}
                /\ tasks'[p].snap = <<ac_machine>>
          /\ Reading(tasks[p]) =>
                /\ ac_machine' = ac_machine
                /\ tasks[p].snap = <<ac_machine>>
          /\ Reading(tasks[p]) /\ ReturnedBy(out', p) =>
                /\ out'.status = "Ok"
                /\ out'.value = ReadResult(tasks[p], ac_machine)
      ]_vars

\* a read returned the result of the index a rebuild installed from a dictionary
\* that has changed since, while the next rebuild has persisted another index
C12_Witness ==
    /\ out.op = "filter"
    /\ out.snap = <<ac_machine>>
    /\ out.value # out.text
    /\ dic # <<>>
    /\ ac_machine.words # parse_words(dic[1])
    /\ \E c \in DictContents : ac_machine.words = parse_words(c)
    /\ \E q \in Handlers : tasks[q].pc = "rb_lock" /\ tasks[q].machine # ac_machine

(***************************************************************************)
(* What a rebuild locks                                                    *)
(***************************************************************************)
\* the tasks in the queue of the lock
Waiting == {lock.waitq[i] : i \in 1..Len(lock.waitq)}

\* C13: the write guard is held only at the swap of rebuild_index (or of init): a
\* rebuild that reads the dictionary, builds or persists holds no guard and waits
\* for none. A read that starts while nobody holds or waits for the write guard
\* gets its guard at once, whatever the rebuilds are doing and however many
\* read guards are held.
C13_RebuildLocksOnlyToSwap ==
    /\ [](\A p \in Procs :
             /\ lock.writer = <<p>> <=> tasks[p].pc \in {"rb_swap", "in_swap"}
             /\ p \in lock.readers <=> Reading(tasks[p])
             /\ p \in Waiting <=> tasks[p].pc \in {"rb_wait", "in_wait", "f_wait", "c_wait"}
             /\ lock.writer # <<>> => lock.readers = {})
    /\ [][\A p \in Handlers :
             /\ tasks[p].pc = "idle"
             /\ tasks'[p].op \in {"filter", "find_sensitive_words"}
             /\ lock.writer = <<>>
             /\ lock.waitq = <<>>
             => Reading(tasks'[p])
         ]_vars

\* a read that started after a rebuild did has returned, while the rebuild is still
\* persisting its index
C13_Witness ==
    /\ out.op \in {"filter", "find_sensitive_words"}
    /\ out.task = 2
    /\ out.status = "Ok"
    /\ tasks[1].pc = "rb_save"
    /\ tasks[1].machine # ac_machine

(***************************************************************************)
(* The words find_sensitive_words reports                                  *)
(***************************************************************************)
\* how many entries of the sequence ws are the word w
CountOf(w, ws) == Cardinality({i \in 1..Len(ws) : ws[i] = w})

\* C14: find_sensitive_words returns one word for each match find_matches reports
\* on the index of its guard, in the order of the scan: as many entries as there
\* are matches, the i-th entry the word of the i-th match, so a word that matches k
\* times is reported k times.
C14_OneWordPerMatch ==
    out.op = "find_sensitive_words" =>
        LET matches == find_matches(out.snap[1], out.text) IN
        /\ out.status = "Ok"
        /\ matches # PanicMatches
        /\ Len(out.value) = Len(matches)
        /\ \A i \in 1..Len(matches) : out.value[i] = matches[i].word
        /\ \A w \in Vocabulary :
              CountOf(w, out.value) =
                  Cardinality({i \in 1..Len(matches) : matches[i].word = w})

\* find_sensitive_words reported a word twice, once for each place it matches at
C14_Witness ==
    /\ out.op = "find_sensitive_words"
    /\ \E w \in Vocabulary :
          /\ CountOf(w, out.value) = 2
          /\ Cardinality({s \in 0..Len(out.text) : Occurs(w, out.text, s)}) = 2

(***************************************************************************)
(* The service after init                                                  *)
(***************************************************************************)
\* the Ready state: the live index has words and the matcher compiled from them
Ready(m) == m.words # <<>> /\ m.ac = <<AhoCorasick_new(m.words)>>

\* C15: whenever init returns Ok, by restoring the index file or by rebuilding,
\* the live index has a non-empty word list and a compiled matcher.
C15_InitSuccessIsReady ==
    out.op = "init" /\ out.status = "Ok" => Ready(ac_machine)

(***************************************************************************)
(* What a match says                                                       *)
(***************************************************************************)
\* C16: every match (start, end, word) find_matches reports spans the word it
\* names: end - start is the byte length of the word, the bytes of the text in
\* [start, end) are the word, and the word is the entry of the word list at the
\* pattern id the matcher reported.
C16_MatchSpansItsWord ==
    Found =>
        /\ pure.matches # PanicMatches
        /\ pure.machine.ac = <<>> => pure.matches = <<>>
        /\ \A i \in 1..Len(pure.matches) :
              LET mat == pure.matches[i]
                  id == find_iter(pure.machine.ac[1], pure.text)[i].pattern
              IN /\ mat.end - mat.start = Len(mat.word)
                 /\ SubSeq(pure.text, mat.start + 1, mat.end) = mat.word
                 /\ id \in 0..(Len(pure.words) - 1)
                 /\ mat.word = pure.words[id + 1]

\* two matches of two words of different lengths, the second one of two bytes for
\* one character
C16_Witness ==
    /\ Found
    /\ Len(pure.words) = 2
    /\ Len(pure.matches) = 2
    /\ pure.matches[1].word # pure.matches[2].word
    /\ pure.matches[2].word = ch_e
    /\ pure.matches[2].end - pure.matches[2].start = 2

(***************************************************************************)
(* The word list of a rebuild                                              *)
(***************************************************************************)
\* the positions of the bytes of c that are not white space
NonWs(c) == {i \in 1..Len(c) : c[i] \notin WhiteSpace}

\* positions i <= j of c are on one line
SameLine(c, i, j) == \A k \in i..j : c[k] # LF

\* the spans <<a, b>> from the first to the last non-blank byte of a line of c
WordSpans(c) ==
    {ab \in NonWs(c) \X NonWs(c) :
        /\ ab[1] <= ab[2]
        /\ SameLine(c, ab[1], ab[2])
        /\ \A k \in NonWs(c) :
              (IF k <= ab[1] THEN SameLine(c, k, ab[1]) ELSE SameLine(c, ab[1], k))
                  => ab[1] <= k /\ k <= ab[2]}

\* ws is the lines of c in file order, each without the white space around it,
\* the blank lines left out, a line that occurs twice kept twice
IsWordListOf(ws, c) ==
    /\ Len(ws) = Cardinality(WordSpans(c))
    /\ \A ab \in WordSpans(c) :
          ws[1 + Cardinality({cd \in WordSpans(c) : cd[1] < ab[1]})]
              = SubSeq(c, ab[1], ab[2])

\* the positions of a rebuild that has built its machine
Built == {"rb_save", "rb_lock", "rb_wait", "rb_swap"}

\* C17: the word list a successful rebuild_index installs is the lines of the
\* dictionary file it read, in file order, trimmed, without the blank lines, with
\* the duplicates; every word of it is non-empty and neither starts nor ends with
\* white space, and the list is non-empty.
C17_WordsAreDictionaryLines ==
    [][\A p \in Procs :
          /\ tasks[p].pc = "rb_read" /\ tasks'[p].pc = "rb_save" =>
                IsWordListOf(tasks'[p].machine.words, dic[1])
          /\ tasks[p].pc \in Built /\ tasks'[p].pc \in Built =>
                tasks'[p].machine = tasks[p].machine
          /\ tasks[p].pc = "rb_swap" /\ ReturnedBy(out', p) =>
                /\ out'.status = "Ok"
                /\ ac_machine'.words = tasks[p].machine.words
                /\ ac_machine'.words # <<>>
                /\ \A i \in 1..Len(ac_machine'.words) :
                      LET w == ac_machine'.words[i] IN
                      /\ w # <<>>
                      /\ w[1] \notin WhiteSpace
                      /\ w[Len(w)] \notin WhiteSpace
      ]_vars

\* a rebuild installed the word b twice, as the dictionary names it, while another
\* one has read "bc" and the two-byte word from lines with white space, "\r\n" and a
\* blank line between them
C17_Witness ==
    /\ out.op = "rebuild_index"
    /\ out.status = "Ok"
    /\ ac_machine.words = <<ch_b, abc, ch_b>>
    /\ \E q \in Handlers : tasks[q].pc = "rb_save" /\ tasks[q].machine.words = <<bc, ch_e>>

(***************************************************************************)
(* The live index                                                          *)
(***************************************************************************)
\* C18: in every reachable state the live index is whole: no words and no matcher,
\* or the matcher compiled from exactly its word list. It changes only at the swap
\* of init or rebuild_index, under the write guard, to the whole index that call
\* built or restored; no other step touches it.
C18_LiveIndexWhole ==
    /\ [](Whole(ac_machine))
    /\ [][ac_machine' # ac_machine =>
             \E p \in Procs :
                /\ tasks[p].pc \in {"rb_swap", "in_swap"}
                /\ tasks[p].op \in {"rebuild_index", "init"}
                /\ lock.writer = <<p>>
                /\ lock.readers = {}
                /\ Whole(tasks[p].machine)
                /\ ac_machine'.words = tasks[p].machine.words
                /\ ac_machine'.ac = tasks[p].machine.ac
         ]_vars

\* a rebuild has replaced a built index by another built index
C18_Witness ==
    /\ out.op = "rebuild_index"
    /\ out.status = "Ok"
    /\ out.snap # <<>>
    /\ Ready(out.snap[1])
    /\ Ready(ac_machine)
    /\ out.snap[1].words # ac_machine.words

(***************************************************************************)
(* The index file and the live index                                       *)
(***************************************************************************)
\* main serves and no call of init or rebuild_index is running
Quiescent ==
    /\ tasks[Main].pc = "serve"
    /\ \A p \in Handlers : tasks[p].op \notin {"init", "rebuild_index"}

\* the index file holds a record of the word list ws
Persisted(ws) ==
    /\ index # <<>>
    /\ decode_from_slice(index[1]).ok
    /\ decode_from_slice(index[1]).machine.words = ws

\* C19: once init or rebuild_index has succeeded and none of them is running, the
\* index file holds the word list of the live index, whatever the interleaving of
\* the rebuilds that ran.
C19_PersistedIsLive ==
    Quiescent => Persisted(ac_machine.words)


(***************************************************************************)
(* Progress                                                                *)
(***************************************************************************)
\* task p is in a call
InCall(p) == tasks[p].op # "none"

\* C20: under a fair scheduler every call of init, rebuild_index, filter and
\* find_sensitive_words that has started returns; a task that waits for a guard of
\* the index holds none, so no call waits for itself; and a rebuild that has
\* persisted its index performs its swap.
C20_EveryCallReturns ==
    /\ [](\A p \in Procs :
             p \in Waiting => p \notin lock.readers /\ lock.writer # <<p>>)
    /\ \A p \in Procs : InCall(p) ~> ~InCall(p)
    /\ \A p \in Procs :
          tasks[p].pc = "rb_lock" ~>
              (ReturnedBy(out, p) /\ out.at = "rb_swap" /\ out.status = "Ok")

\* a rebuild that has persisted its index waits in the queue of the lock for a read
\* to drop its guard
C20_Witness ==
    \E p, q \in Handlers :
       /\ tasks[p].pc = "rb_wait"
       /\ lock.waitq = <<p>>
       /\ Reading(tasks[q])
       /\ q \in lock.readers

=============================================================================
